---- MODULE Spec2Model ----
(***************************************************************************)
(* Model of the BitTorrent tracker core of bittorrent_rs (src/tracker.rs): *)
(* the Tracker object (a Mutex-guarded map info_hash -> HashSet<Peer> and  *)
(* one AtomicU32), and Tracker::handle_session run concurrently by a set   *)
(* of threads, one step per access to shared state.                        *)
(***************************************************************************)
EXTENDS Integers, Sequences, FiniteSets, Bags, TLC

(* ------------------------------ bounds --------------------------------- *)
\* cap on the number of announces with event=completed that are accepted
MaxCompleted == 2
\* Opt.peers, the configured number of peers to respond with (--peers)
OptPeers == 1
\* Tracker.opt, as Tracker::new stores it (root is a path the core never reads)
Opt == [peers |-> OptPeers]

(* --------------------------- program constants ------------------------- *)
\* newtype_bytearray!(InfoHash, 20); newtype_bytearray!(PeerId, 20)
IdLen == 20
\* normalize_request: self.numwant.or(Some(50))
DefaultNumwant == 50
\* TrackerResponse { interval: 1, .. }
Interval == 1

(* ------------------------------ inputs --------------------------------- *)
\* the threads that call handle_session on the one shared Tracker
Threads == {1, 2}
NoThread == 0

Rep(b, n) == [i \in 1 .. n |-> b]

\* raw values of the info_hash / peer_id query parameters: byte strings
HashA == Rep(1, IdLen)
HashB == Rep(2, IdLen)
PeerIdA == Rep(3, IdLen)
PeerIdB == Rep(4, IdLen)
ShortId == Rep(5, 3)
InfoHashes == {HashA, HashB}
RawInfoHashes == InfoHashes \cup {ShortId}
RawPeerIds == {PeerIdA, PeerIdB, ShortId}

\* Option<T>: None, Some(v) and unwrap of a Some
None == <<>>
Some(v) == <<v>>
Unwrap(opt) == opt[1]
Ips == {"10.0.0.1"}
Options(set) == {None} \cup {Some(v) : v \in set}
Ports == {6881}
EventWords == {"started", "stopped", "completed", "paused"}
Numwants == {1, 10000}
Methods == {"GET", "POST"}
Paths == {"/announce", "/scrape"}

\* a query string, as the key=value pairs it carries; stats stands for the
\* three required u32 fields uploaded, downloaded and left
Queries ==
    [info_hash : RawInfoHashes, peer_id : RawPeerIds, ip : Options(Ips),
     port : Ports, stats : {"present", "missing"},
     event : Options(EventWords), numwant : Options(Numwants)]

\* the queries of the concurrent runs
ConcQueries ==
    [info_hash : {HashA, HashB}, peer_id : {PeerIdA, PeerIdB}, ip : Options(Ips),
     port : Ports, stats : {"present"},
     event : Options({"started", "stopped", "completed"}), numwant : {Some(1)}]

(* ------------------------------ results -------------------------------- *)
Ok(v) == [ok |-> TRUE, val |-> v]
Err(e) == [ok |-> FALSE, err |-> e]

TrackerResponse(peers) == [kind |-> "Response", interval |-> Interval, peers |-> peers]
TrackerError(msg) == [kind |-> "Error", failure |-> msg]
\* a panic unwinding out of handle_session: no TrackerResult is returned
Panicked(cause) == [kind |-> "Panic", cause |-> cause]
NoResult == [kind |-> "None"]

(* ------------------------- request decoding ---------------------------- *)
\* BytesVisitor::visit_bytes / visit_str: <[u8; 20]>::try_from(value)
VisitBytes(value) ==
    IF Len(value) = IdLen THEN Ok(value) ELSE Err([msg |-> "invalid length", len |-> Len(value)])

\* #[serde(rename_all = "lowercase")] enum ClientEvent
ParseEvent(word) ==
    IF word = None THEN Ok(None)
    ELSE IF Unwrap(word) \in {"started", "stopped", "completed"} THEN Ok(word)
    ELSE Err([msg |-> "unknown variant", variant |-> Unwrap(word)])

\* TrackerRequest::from_query_string: serde_urlencoded::from_str, errors
\* mapped to TrackerError::new(err.to_string())
FromQueryString(q) ==
    LET ih == VisitBytes(q.info_hash)
        pid == VisitBytes(q.peer_id)
        ev == ParseEvent(q.event)
    IN  IF ~ih.ok THEN Err(TrackerError(ih.err))
        ELSE IF ~pid.ok THEN Err(TrackerError(pid.err))
        ELSE IF q.stats = "missing" THEN Err(TrackerError([msg |-> "missing field"]))
        ELSE IF ~ev.ok THEN Err(TrackerError(ev.err))
        ELSE Ok([info_hash |-> ih.val, peer_id |-> pid.val, ip |-> q.ip,
                 port |-> q.port, event |-> ev.val, numwant |-> q.numwant])

\* TrackerRequest::validate_request: the length checks are commented out
ValidateRequest(req) == Ok(req)

\* TrackerRequest::normalize_request
NormalizeRequest(req) ==
    [req EXCEPT !.numwant = IF req.numwant = None THEN Some(DefaultNumwant)
                            ELSE req.numwant]

(* ------------------------------ bencode -------------------------------- *)
\* bytes the identifiers and wires are made of: NUL, '0', ':', 'a' and 0xff
ByteSamples == {0, 48, 58, 97, 255}

\* byte strings of n bytes: k bytes x, then bytes y
ByteStrings(n) ==
    {[i \in 1 .. n |-> IF i <= k THEN x ELSE y] :
        k \in 0 .. n, x \in ByteSamples, y \in ByteSamples}

\* the [u8; 20] values of a PeerId or InfoHash
Identifiers == ByteStrings(IdLen)

\* byte strings a client may send where an identifier is expected
WireLens == {0, 3, IdLen - 1, IdLen, IdLen + 1}
ClientStrings == UNION {ByteStrings(n) : n \in WireLens}

\* a number in ASCII decimal digits, and back
RECURSIVE Digits(_)
Digits(n) == IF n < 10 THEN <<48 + n>> ELSE Digits(n \div 10) \o <<48 + (n % 10)>>

RECURSIVE ParseDigits(_)
ParseDigits(ds) ==
    IF ds = <<>> THEN 0
    ELSE 10 * ParseDigits(SubSeq(ds, 1, Len(ds) - 1)) + (ds[Len(ds)] - 48)

RECURSIVE Concat(_)
Concat(seqs) == IF seqs = <<>> THEN <<>> ELSE Head(seqs) \o Concat(Tail(seqs))

\* a bencoded byte string: <length>:<bytes>
BencodeBytes(bytes) == Digits(Len(bytes)) \o <<58>> \o bytes

\* a bencoded list of integers, l i<n>e ... e: what the generic [T; N]
\* implementation of serde produces for a byte array
SerializeAsIntList(bytes) ==
    <<108>> \o Concat([i \in 1 .. Len(bytes) |-> <<105>> \o Digits(bytes[i]) \o <<101>>])
           \o <<101>>

\* impl Serialize: serializer.serialize_bytes(&self.0)
SerializeId(id) == BencodeBytes(id)

\* impl Deserialize: deserializer.deserialize_bytes(BytesVisitor); the wire
\* must be <length>:<bytes>, and the bytes go to visit_bytes
DeserializeId(wire) ==
    LET colons == {i \in 1 .. Len(wire) : wire[i] = 58}
        colon == CHOOSE i \in colons : \A j \in colons : i <= j
        prefix == SubSeq(wire, 1, colon - 1)
        n == ParseDigits(prefix)
    IN  IF colons = {} \/ prefix = <<>>
           \/ \E i \in 1 .. Len(prefix) : prefix[i] \notin 48 .. 57
        THEN Err([msg |-> "invalid type"])
        ELSE IF Len(wire) - colon < n THEN Err([msg |-> "end of stream"])
        ELSE VisitBytes(SubSeq(wire, colon + 1, colon + n))

\* codec: nothing being encoded or decoded
NoCodec == [at |-> "start", id |-> None, wire |-> <<>>, out |-> NoResult]

\* the (method, path, query) handle_session matches on
Http(method, path, query) == [method |-> method, path |-> path, query |-> query]
NoHttp == Http("", "", None)

NoRequest == [info_hash |-> <<>>, peer_id |-> <<>>, ip |-> None, port |-> 0,
              event |-> None, numwant |-> None]

\* the match with the arm (GET, _, _) ahead of (GET, "/announce", None)
RouteShadowed(method, path, query) ==
    IF method = "GET" /\ path = "/announce" /\ query # None THEN "announce"
    ELSE IF method = "GET" THEN "Unrecognized path, try '/announce'."
    ELSE "Invalid request type: client request was not an HTTP GET."

\* the match of handle_session on (method, path, query)
Route(method, path, query) ==
    IF method = "GET" /\ path = "/announce" /\ query # None THEN "announce"
    ELSE IF method = "GET" /\ path = "/announce"
        THEN "Invalid request: no query string."
    ELSE IF method = "GET" THEN "Unrecognized path, try '/announce'."
    ELSE "Invalid request type: client request was not an HTTP GET."

(* ------------------------------ registry ------------------------------- *)
\* struct Peer, compared and hashed by all three fields
Peer(req) == [peer_id |-> req.peer_id, ip |-> Unwrap(req.ip), port |-> req.port]

\* an insert that appends without looking for an equal value, as a Vec would
HashSetPush(set, peer) == set (+) SetToBag({peer})

\* HashSet::insert: a value equal to one already present is not added
HashSetInsert(set, peer) ==
    IF BagIn(peer, set) THEN set ELSE set (+) SetToBag({peer})

\* HashMap::insert(k, HashSet::new()): the swarm of k is replaced, not kept
InsertNew(map, k) == [x \in DOMAIN map \cup {k} |-> IF x = k THEN EmptyBag ELSE map[x]]

\* HashMap::entry(k).or_insert(HashSet::new())
OrInsert(map, k) ==
    IF k \in DOMAIN map THEN map
    ELSE [x \in DOMAIN map \cup {k} |-> IF x = k THEN EmptyBag ELSE map[x]]

\* one peer set for the whole tracker: the stored peers of every torrent
GetAny(map, k) ==
    [p \in UNION {DOMAIN map[x] : x \in DOMAIN map} |->
        IF k \in DOMAIN map /\ p \in DOMAIN map[k] THEN map[k][p] ELSE 1]

\* torrents.get(&info_hash): the stored peers of that torrent, None (here the
\* empty bag, which map_or turns into vec![]) for an unknown info_hash
Get(map, k) == IF k \in DOMAIN map THEN map[k] ELSE EmptyBag

\* the peers of a torrent as a set; no peers for an unknown info_hash
Swarm(map, k) == BagToSet(Get(map, k))

\* IteratorRandom::choose: one element picked at random
ChooseOne(peers, amount) ==
    {c \in SubBag(peers) : BagCardinality(c) = IF 1 < BagCardinality(peers)
                                               THEN 1 ELSE BagCardinality(peers)}

\* IteratorRandom::choose_multiple: amount elements of the iteration picked
\* at random into a Vec, all of them when there are fewer
ChooseMultiple(peers, amount) ==
    {c \in SubBag(peers) : BagCardinality(c) = IF amount < BagCardinality(peers)
                                               THEN amount ELSE BagCardinality(peers)}

\* the peers of a Vec<Peer> as a set
PeerSet(peers) == BagToSet(peers)

(* ------------------------------- state --------------------------------- *)
VARIABLES
    torrents,        \* Tracker.torrents: info_hash -> HashSet<Peer>
    poisoned,        \* poison flag of the Mutex around torrents
    holder,          \* thread holding the Mutex, NoThread when free
    complete_count,  \* Tracker.complete_count
    pc,              \* per thread: position in handle_session
    qs,              \* per thread: the decoded TrackerRequest
    result,          \* per thread: outcome of the finished call
    http,            \* per thread: method, path and query of the Request<Body>
    codec,           \* a PeerId / InfoHash on its way through serde_bencode
    completedSeen,   \* history: announces with event=completed accepted so far
    upserted,        \* history: the <<info_hash, peer>> whose insert was executed
    phase            \* history: per info_hash, how its announces went so far

vars == <<torrents, poisoned, holder, complete_count, pc, qs, result, http,
          codec, completedSeen, upserted, phase>>

\* a request for info_hash h is being handled
InFlight(h) == \E t \in Threads : pc[t] \notin {"idle", "done"} /\ qs[t].info_hash = h

NoPeer == [peer_id |-> <<>>, ip |-> "", port |-> 0]
Fresh == <<"fresh", NoPeer>>
Other == <<"other", NoPeer>>

\* phase[h] follows the announces handle_session accepts for h:
\*   fresh       none yet
\*   started  p  one, from p with event=started
\*   stopped  p  then, after that one was over, one from p with event=stopped
\*   gone     p  then, after that one was over, announces from other peers only
\*   other       anything else
Advance(ph, req) ==
    IF req.ip = None THEN Other
    ELSE LET p == Peer(req) quiet == ~InFlight(req.info_hash) IN
         IF ph = Fresh /\ req.event = Some("started") THEN <<"started", p>>
         ELSE IF ph = <<"started", p>> /\ req.event = Some("stopped") /\ quiet
              THEN <<"stopped", p>>
         ELSE IF ph[1] = "stopped" /\ ph[2] # p /\ quiet THEN <<"gone", ph[2]>>
         ELSE IF ph[1] = "gone" /\ ph[2] # p THEN ph
         ELSE Other

\* a registry loaded with an empty swarm per known torrent at construction
InitPreloaded ==
    /\ torrents = [h \in InfoHashes |-> EmptyBag]
    /\ poisoned = FALSE
    /\ holder = NoThread
    /\ complete_count = 0
    /\ pc = [t \in Threads |-> "idle"]
    /\ qs = [t \in Threads |-> NoRequest]
    /\ result = [t \in Threads |-> NoResult]
    /\ http = [t \in Threads |-> NoHttp]
    /\ codec = NoCodec
    /\ completedSeen = 0
    /\ upserted = {}
    /\ phase = [h \in InfoHashes |-> Fresh]

\* Tracker::new: an empty HashMap, a fresh Mutex, complete_count 0
Init ==
    /\ torrents = <<>>
    /\ poisoned = FALSE
    /\ holder = NoThread
    /\ complete_count = 0
    /\ pc = [t \in Threads |-> "idle"]
    /\ qs = [t \in Threads |-> NoRequest]
    /\ result = [t \in Threads |-> NoResult]
    /\ http = [t \in Threads |-> NoHttp]
    /\ codec = NoCodec
    /\ completedSeen = 0
    /\ upserted = {}
    /\ phase = [h \in InfoHashes |-> Fresh]

Finish(t, res) ==
    /\ pc' = [pc EXCEPT ![t] = "done"]
    /\ result' = [result EXCEPT ![t] = res]

(* handle_session, a request the match rejects *)
Reject(t) ==
    /\ pc[t] = "idle"
    /\ \E method \in Methods, path \in Paths, query \in Options({"q"}) :
          /\ Route(method, path, query) # "announce"
          /\ http' = [http EXCEPT ![t] = Http(method, path, query)]
          /\ Finish(t, TrackerError(Route(method, path, query)))
    /\ UNCHANGED <<torrents, poisoned, holder, complete_count, qs, completedSeen,
                   upserted, phase, codec>>

(* handle_session, (GET, "/announce", Some(query)): from_query_string,   *)
(* validate_request and normalize_request                                *)
Announce(t, queries, history) ==
    /\ UNCHANGED codec
    /\ pc[t] = "idle"
    /\ \E query \in queries :
          LET parsed == FromQueryString(query) IN
          /\ Route("GET", "/announce", Some(query)) = "announce"
          /\ http' = [http EXCEPT ![t] = Http("GET", "/announce", Some(query))]
          /\ IF ~parsed.ok
             THEN /\ Finish(t, parsed.err)
                  /\ UNCHANGED <<qs, completedSeen, phase>>
             ELSE /\ parsed.val.event = Some("completed") => completedSeen < MaxCompleted
                  /\ qs' = [qs EXCEPT ![t] =
                                NormalizeRequest(ValidateRequest(parsed.val).val)]
                  /\ completedSeen' = IF parsed.val.event = Some("completed")
                                      THEN completedSeen + 1 ELSE completedSeen
                  /\ phase' = IF history
                              THEN [phase EXCEPT ![parsed.val.info_hash] =
                                                      Advance(@, parsed.val)]
                              ELSE phase
                  /\ pc' = [pc EXCEPT ![t] = "register"]
                  /\ UNCHANGED result
    /\ UNCHANGED <<torrents, poisoned, holder, complete_count, upserted>>

\* Mutex::lock() blocks while another thread holds the lock
LockFree == holder = NoThread

\* a guard that outlives the function that took the lock: the lock stays held
KeepGuard(t) == t

\* the MutexGuard is a local of maybe_register_new_peer and of get_peers: it is
\* dropped, and the lock released, when they return or unwind
DropGuard(t) == NoThread

\* an Err in place of the panic: the request ends in the Error variant
UnimplementedAsError == TrackerError("not implemented")

\* unimplemented!() in the arms of Started and Stopped
Unimplemented == Panicked("unimplemented")

(* maybe_register_new_peer: self.torrents.lock().unwrap() *)
LockForRegister(t) ==
    /\ UNCHANGED <<http, codec>>
    /\ pc[t] = "register"
    /\ LockFree
    /\ IF poisoned
       THEN /\ Finish(t, Panicked("PoisonError"))
            /\ UNCHANGED holder
       ELSE /\ holder' = t
            /\ pc' = [pc EXCEPT ![t] = "registering"]
            /\ UNCHANGED result
    /\ UNCHANGED <<torrents, poisoned, complete_count, qs, completedSeen,
                   upserted, phase>>

(* maybe_register_new_peer with the lock held: req.ip.unwrap(), then     *)
(* entry().or_insert().insert(peer); the guard is dropped on return and  *)
(* on unwinding, which poisons the Mutex                                 *)
Register(t) ==
    /\ UNCHANGED <<http, codec>>
    /\ pc[t] = "registering"
    /\ holder = t
    /\ holder' = DropGuard(t)
    /\ IF qs[t].ip = None
       THEN /\ poisoned' = TRUE
            /\ Finish(t, Panicked("unwrap on None"))
            /\ UNCHANGED <<torrents, upserted>>
       ELSE /\ torrents' =
                 LET map == OrInsert(torrents, qs[t].info_hash)
                 IN  [map EXCEPT ![qs[t].info_hash] = HashSetInsert(@, Peer(qs[t]))]
            /\ upserted' = upserted \cup {<<qs[t].info_hash, Peer(qs[t])>>}
            /\ pc' = [pc EXCEPT ![t] = "event"]
            /\ UNCHANGED <<poisoned, result>>
    /\ UNCHANGED <<complete_count, qs, completedSeen, phase>>

(* handle_session: match qs.event; fetch_add(1) is one atomic step. The   *)
(* AtomicU32 wraps at 2^32, which MaxCompleted keeps out of reach.        *)
Event(t) ==
    /\ UNCHANGED <<http, codec>>
    /\ pc[t] = "event"
    /\ IF qs[t].event \in {Some("started"), Some("stopped")}
       THEN /\ Finish(t, Unimplemented)
            /\ UNCHANGED complete_count
       ELSE /\ complete_count' = IF qs[t].event = Some("completed")
                                 THEN complete_count + 1
                                 ELSE complete_count
            /\ pc' = [pc EXCEPT ![t] = "getpeers"]
            /\ UNCHANGED result
    /\ UNCHANGED <<torrents, poisoned, holder, qs, completedSeen, upserted, phase>>

(* get_peers: self.torrents.lock().unwrap() *)
LockForGetPeers(t) ==
    /\ UNCHANGED <<http, codec>>
    /\ pc[t] = "getpeers"
    /\ LockFree
    /\ IF poisoned
       THEN /\ Finish(t, Panicked("PoisonError"))
            /\ UNCHANGED holder
       ELSE /\ holder' = t
            /\ pc' = [pc EXCEPT ![t] = "getting"]
            /\ UNCHANGED result
    /\ UNCHANGED <<torrents, poisoned, complete_count, qs, completedSeen,
                   upserted, phase>>

(* get_peers with the lock held, and the Ok(TrackerResponse) built from it *)
GetPeers(t) ==
    /\ UNCHANGED <<http, codec>>
    /\ pc[t] = "getting"
    /\ holder = t
    /\ holder' = DropGuard(t)
    /\ \E peers \in ChooseMultiple(Get(torrents, qs[t].info_hash), Unwrap(qs[t].numwant)) :
          Finish(t, TrackerResponse(peers))
    /\ UNCHANGED <<torrents, poisoned, complete_count, qs, completedSeen,
                   upserted, phase>>

(* the thread is done with the call and takes the next request *)
Return(t) ==
    /\ UNCHANGED codec
    /\ pc[t] = "done"
    /\ pc' = [pc EXCEPT ![t] = "idle"]
    /\ qs' = [qs EXCEPT ![t] = NoRequest]
    /\ result' = [result EXCEPT ![t] = NoResult]
    /\ http' = [http EXCEPT ![t] = NoHttp]
    /\ UNCHANGED <<torrents, poisoned, holder, complete_count, completedSeen,
                   upserted, phase>>

\* one thread serving one request after the other, any query; phase follows
Next ==
    \E t \in {1} :
        \/ Reject(t)
        \/ Announce(t, Queries, TRUE)
        \/ LockForRegister(t)
        \/ Register(t)
        \/ Event(t)
        \/ LockForGetPeers(t)
        \/ GetPeers(t)
        \/ Return(t)

Spec == Init /\ [][Next]_vars

\* all threads serving requests concurrently, queries that decode; phase is
\* left alone
NextConc ==
    \E t \in Threads :
        \/ Reject(t)
        \/ Announce(t, ConcQueries, FALSE)
        \/ LockForRegister(t)
        \/ Register(t)
        \/ Event(t)
        \/ LockForGetPeers(t)
        \/ GetPeers(t)
        \/ Return(t)

SpecConc == Init /\ [][NextConc]_vars

(* --------------------------- fair scheduling --------------------------- *)
\* the queries of the runs checked for progress
FairQueries ==
    [info_hash : {HashA}, peer_id : {PeerIdA, PeerIdB}, ip : Options(Ips),
     port : Ports, stats : {"present"},
     event : Options({"started", "completed"}), numwant : {Some(1)}]

NextFair ==
    \E t \in Threads :
        \/ Reject(t)
        \/ Announce(t, FairQueries, FALSE)
        \/ LockForRegister(t)
        \/ Register(t)
        \/ Event(t)
        \/ LockForGetPeers(t)
        \/ GetPeers(t)
        \/ Return(t)

\* a thread inside handle_session keeps running: its own steps are taken
\* when they stay possible, and a thread waiting in Mutex::lock gets the lock
\* when it is free again and again (fair scheduling of the waiters); nothing
\* obliges a client to send a request or to pick up its result
Fairness ==
    \A t \in Threads :
        /\ SF_vars(LockForRegister(t))
        /\ WF_vars(Register(t))
        /\ WF_vars(Event(t))
        /\ SF_vars(LockForGetPeers(t))
        /\ WF_vars(GetPeers(t))

SpecFair == Init /\ [][NextFair]_vars /\ Fairness

(* ------------------------------- codec --------------------------------- *)
trackerVars == <<torrents, poisoned, holder, complete_count, pc, qs, result, http,
                 completedSeen, upserted, phase>>

(* serde_bencode::to_bytes(&peer_id), as in peer_id_ser_test *)
Serialize ==
    /\ codec.at = "start"
    /\ \E id \in Identifiers :
          codec' = [at |-> "encoded", id |-> Some(id), wire |-> SerializeId(id),
                    out |-> NoResult]
    /\ UNCHANGED trackerVars

(* a bencoded byte string that comes from a client, as in peer_id_wrong_length *)
Receive ==
    /\ codec.at = "start"
    /\ \E bytes \in ClientStrings :
          codec' = [at |-> "received", id |-> None, wire |-> BencodeBytes(bytes),
                    out |-> NoResult]
    /\ UNCHANGED trackerVars

(* serde_bencode::from_bytes::<PeerId>(wire), as in peer_id_de_test *)
Deserialize ==
    /\ codec.at \in {"encoded", "received"}
    /\ codec' = [codec EXCEPT !.at = "decoded", !.out = DeserializeId(codec.wire)]
    /\ UNCHANGED trackerVars

Forget ==
    /\ codec.at = "decoded"
    /\ codec' = NoCodec
    /\ UNCHANGED trackerVars

NextCodec == Serialize \/ Receive \/ Deserialize \/ Forget

SpecCodec == Init /\ [][NextCodec]_vars

(* ------------------------- vocabulary of the claims -------------------- *)
\* thread t holds a decoded announce (handle_session got past validation)
IsAnnounce(t) == qs[t] # NoRequest
Done(t) == pc[t] = "done"
HasIp(t) == qs[t].ip # None
Quiescent == \A t \in Threads : pc[t] \in {"idle", "done"}
\* the announcing peer of t is a member of the swarm it announced to; with
\* no ip in the query any member with its peer_id and port counts
IsMember(t) ==
    \E p \in Swarm(torrents, qs[t].info_hash) :
        /\ p.peer_id = qs[t].peer_id
        /\ p.port = qs[t].port
        /\ HasIp(t) => p.ip = Unwrap(qs[t].ip)
\* announces with event=completed whose fetch_add is still ahead of them
PendingCompleted ==
    {t \in Threads : /\ pc[t] \in {"register", "registering", "event"}
                     /\ qs[t].event = Some("completed")}

(* C1: when all announces for an info_hash so far were a Started from p and *)
(* then a Stopped from p, the swarm has no peers; and from then on, while  *)
(* only other peers announce, p is not in the swarm and not in any peer    *)
(* list returned to them.                                                  *)
C1_StartedThenStoppedEmpties ==
    \A h \in InfoHashes :
        /\ phase[h][1] = "stopped" /\ ~InFlight(h) => Swarm(torrents, h) = {}
        /\ phase[h][1] = "gone" => phase[h][2] \notin Swarm(torrents, h)
        /\ phase[h][1] \in {"stopped", "gone"} =>
              \A t \in Threads :
                  /\ Done(t) /\ IsAnnounce(t) /\ qs[t].info_hash = h
                  /\ HasIp(t) /\ Peer(qs[t]) # phase[h][2]
                  /\ result[t].kind = "Response"
                  => phase[h][2] \notin PeerSet(result[t].peers)

(* C2: every accepted announce with event=completed adds exactly 1 to the  *)
(* completed counter (each one has either added its 1 or is still on its   *)
(* way to do so), and when it is over its peer is a member of the swarm.   *)
C2_CompletedCountsOnce ==
    /\ complete_count + Cardinality(PendingCompleted) = completedSeen
    /\ \A t \in Threads :
          Done(t) /\ IsAnnounce(t) /\ qs[t].event = Some("completed") => IsMember(t)

(* C3: the peer list returned to an announcing peer never contains that    *)
(* peer itself.                                                            *)
C3_NoSelfInPeerList ==
    \A t \in Threads :
        Done(t) /\ IsAnnounce(t) /\ result[t].kind = "Response"
        => \A p \in PeerSet(result[t].peers) :
              ~(/\ p.peer_id = qs[t].peer_id
                /\ p.port = qs[t].port
                /\ HasIp(t) => p.ip = Unwrap(qs[t].ip))

\* what a step of thread t, handling an announce of peer p for h, may do to
\* the registry
C4_Steps(t) ==
    LET h == qs[t].info_hash
        p == Peer(qs[t])
    IN  pc[t] \notin {"idle", "done"} /\ pc'[t] # pc[t] /\ HasIp(t) =>
            /\ p \in Swarm(torrents, h) => torrents' = torrents
            /\ torrents' # torrents =>
                  /\ h \in DOMAIN torrents'
                  /\ CopiesIn(p, torrents'[h]) = 1
                  /\ BagCardinality(torrents'[h]) =
                        Cardinality(Swarm(torrents, h)) + 1
                  /\ \A k \in DOMAIN torrents' \ {h} :
                        k \in DOMAIN torrents /\ torrents'[k] = torrents[k]
(* C4: a step of a thread whose announced peer is already in the swarm      *)
(* leaves the registry as it is; a step that changes the registry adds      *)
(* exactly one entry, the announced peer, which is then there once (so two  *)
(* announces of one peer into an empty swarm leave it with size 1).         *)
C4_UpsertIdempotent == [][\A t \in Threads : C4_Steps(t)]_vars

\* two announces with event=started of one peer for one torrent have both
\* run their insert, and the swarm has size 1
C4_Witness ==
    /\ \A t \in Threads :
          /\ IsAnnounce(t) /\ HasIp(t)
          /\ qs[t].event = Some("started")
          /\ result[t] = Panicked("unimplemented")
    /\ qs[1].info_hash = qs[2].info_hash
    /\ Peer(qs[1]) = Peer(qs[2])
    /\ BagCardinality(torrents[qs[1].info_hash]) = 1

(* C5: no accepted announce, whatever its event, ends in the event match   *)
(* as an unhandled case, and one that ends with a Response has had its     *)
(* event's effect on the registry: Stopped leaves the peer out of the      *)
(* swarm, the others leave it a member.                                    *)
C5_EventTableTotal ==
    \A t \in Threads :
        Done(t) /\ IsAnnounce(t) =>
            /\ result[t] # Panicked("unimplemented")
            /\ result[t].kind = "Response" =>
                  (IsMember(t) <=> qs[t].event # Some("stopped"))

(* C6: every call of handle_session returns a TrackerResult, a Response or *)
(* an Error; it never panics.                                              *)
C6_NeverPanics ==
    \A t \in Threads : Done(t) => result[t].kind \in {"Response", "Error"}

(* C7: no request fails because of what an earlier request did: none ends  *)
(* on the registry lock being unusable.                                    *)
C7_FailureConfined ==
    \A t \in Threads : Done(t) => result[t] # Panicked("PoisonError")

(* C8: every peer whose upsert was executed is in its swarm, at every       *)
(* moment and so once all requests are over: no upsert is lost, whatever    *)
(* the interleaving.                                                        *)
C8_NoLostUpdates ==
    \A e \in upserted : e[2] \in Swarm(torrents, e[1])

\* two requests in flight at once have both upserted, distinct peers into
\* the same swarm
C8_Witness ==
    /\ pc[1] = "event" /\ pc[2] = "event"
    /\ qs[1].info_hash = qs[2].info_hash
    /\ Peer(qs[1]) # Peer(qs[2])
    /\ {<<qs[1].info_hash, Peer(qs[1])>>, <<qs[2].info_hash, Peer(qs[2])>>} \subseteq upserted

(* C9: once all requests are over, the completed counter is the number of  *)
(* announces with event=completed that were accepted, whatever their       *)
(* interleaving.                                                           *)
C9_CompletedAtomic ==
    Quiescent => complete_count = completedSeen

(* C10: the normalized numwant of a request that carried one (any other   *)
(* than the default, which no query of the model carries) is at most the   *)
(* configured maximum peer count, and the peer list returned to it is no   *)
(* longer than that maximum.                                               *)
C10_NumwantClamped ==
    \A t \in Threads :
        IsAnnounce(t) /\ Unwrap(qs[t].numwant) \in Numwants =>
            /\ Unwrap(qs[t].numwant) <= Opt.peers
            /\ Done(t) /\ result[t].kind = "Response"
               => BagCardinality(result[t].peers) <= Opt.peers

(* ------------------------- vocabulary, continued ----------------------- *)
\* the members of the swarm t announced to, other than the announcing peer
Others(t) == Swarm(torrents, qs[t].info_hash) \ {Peer(qs[t])}
\* t was handed a request the match takes as an announce
IsAnnounceRoute(t) ==
    /\ http[t].method = "GET"
    /\ http[t].path = "/announce"
    /\ http[t].query # None
\* thread t ends its request in this step
Ends(t) == pc[t] # "done" /\ pc'[t] = "done"

\* res is the Error of an identifier of the wrong length: it carries the
\* observed length and names the field
BadLengthFailure(res, field, value) ==
    /\ res.kind = "Error"
    /\ res.failure.msg = "invalid length"
    /\ res.failure.len = Len(value)
    /\ "field" \in DOMAIN res.failure
    /\ res.failure.field = field

\* the completed count the tracker holds for h: the one counter of Tracker
CompletedCount(counter, h) == counter

(* C11: when the swarm has fewer members other than the requester than the *)
(* announce's numwant, the peer list of the response holds every one of    *)
(* them: after A and then B announce for one info_hash, B's list has A.    *)
C11_SmallSwarmComplete ==
    \A t \in Threads :
        /\ Done(t) /\ IsAnnounce(t) /\ result[t].kind = "Response"
        /\ Cardinality(Others(t)) < Unwrap(qs[t].numwant)
        => Others(t) \subseteq PeerSet(result[t].peers)

C11_Witness ==
    \E t \in Threads :
        /\ Done(t) /\ IsAnnounce(t) /\ result[t].kind = "Response"
        /\ Cardinality(Others(t)) < Unwrap(qs[t].numwant)
        /\ Others(t) # {}
        /\ Others(t) \subseteq PeerSet(result[t].peers)

(* C12: the match on (method, path, query) is exhaustive with fixed        *)
(* messages: GET /announce without a query string, GET on another path and *)
(* any non-GET request, whatever its path and query, each end in the Error *)
(* variant with their own message, never in a Response.                    *)
C12_RoutingFailures ==
    \A t \in Threads :
        Done(t) =>
            /\ http[t].method = "GET" /\ http[t].path = "/announce" /\ http[t].query = None
               => result[t] = TrackerError("Invalid request: no query string.")
            /\ http[t].method = "GET" /\ http[t].path # "/announce"
               => result[t] = TrackerError("Unrecognized path, try '/announce'.")
            /\ http[t].method # "GET"
               => result[t] = TrackerError(
                      "Invalid request type: client request was not an HTTP GET.")

C12_Witness ==
    \E t \in Threads :
        /\ Done(t)
        /\ http[t].method = "POST" /\ http[t].path = "/announce" /\ http[t].query # None
        /\ result[t].kind = "Error"
        /\ result[t].failure = "Invalid request type: client request was not an HTTP GET."

(* C13: an announce whose info_hash or peer_id is not exactly 20 bytes     *)
(* ends in the Error variant, never a Response, with an invalid-length     *)
(* failure that carries the observed length and says which field is not    *)
(* 20 bytes long.                                                          *)
C13_BadLengthNamesField ==
    \A t \in Threads :
        Done(t) /\ IsAnnounceRoute(t) =>
            LET q == Unwrap(http[t].query) IN
            /\ Len(q.info_hash) # IdLen
               => BadLengthFailure(result[t], "info_hash", q.info_hash)
            /\ Len(q.info_hash) = IdLen /\ Len(q.peer_id) # IdLen
               => BadLengthFailure(result[t], "peer_id", q.peer_id)

(* C14: swarms are created lazily and never destroyed: an info_hash has a  *)
(* registry entry only once an announce for it has been registered, and an *)
(* entry that exists stays, also over Stopped announces.                   *)
C14_LazyNeverDestroyed ==
    /\ [](\A h \in DOMAIN torrents : \E e \in upserted : e[1] = h)
    /\ [][DOMAIN torrents \subseteq DOMAIN torrents']_vars

C14_Witness ==
    \E t \in Threads :
        /\ Done(t) /\ IsAnnounce(t) /\ qs[t].event = Some("stopped")
        /\ qs[t].info_hash \in DOMAIN torrents
        /\ DOMAIN torrents = InfoHashes

C16_StoppedNonMemberNoOp ==
    [][\A t \in Threads :
          /\ IsAnnounce(t) /\ HasIp(t) /\ qs[t].event = Some("stopped")
          /\ ~poisoned
          /\ Peer(qs[t]) \notin Swarm(torrents, qs[t].info_hash)
          /\ pc'[t] # pc[t]
          => /\ Peer(qs[t]) \notin Swarm(torrents', qs[t].info_hash)
             /\ Ends(t) => result'[t].kind = "Response"]_vars

(* C17: a request that ends in the Error variant leaves the registry as it *)
(* was before the request: the peer set of every swarm, the set of         *)
(* registered info_hashes and the completed counter. The Error is the      *)
(* outcome of the request's first step, which touches none of them.        *)
C17_ErrorLeavesRegistry ==
    [][\A t \in Threads :
          Ends(t) /\ result'[t].kind = "Error"
          => /\ pc[t] = "idle"
             /\ torrents' = torrents
             /\ complete_count' = complete_count]_vars

C17_Witness ==
    \E t \in Threads :
        /\ Done(t) /\ result[t].kind = "Error"
        /\ IsAnnounceRoute(t)
        /\ DOMAIN torrents # {}
        /\ complete_count > 0

(* C18: per-torrent isolation: a step of an announce for info_hash X       *)
(* leaves the peer set and the completed count of every other info_hash Y  *)
(* as they were; a Completed announce for X does not change the completed  *)
(* count of Y.                                                             *)
C18_PerTorrentIsolation ==
    [][\A t \in Threads :
          IsAnnounce(t) /\ pc'[t] # pc[t] /\ pc[t] # "done"
          => \A h \in InfoHashes \ {qs[t].info_hash} :
                /\ Swarm(torrents', h) = Swarm(torrents, h)
                /\ CompletedCount(complete_count', h) = CompletedCount(complete_count, h)]_vars

C20_DeadlockFree ==
    /\ [](\A t \in Threads : holder = t => pc[t] \in {"registering", "getting"})
    /\ \A t \in Threads : (pc[t] \notin {"idle", "done"}) ~> Done(t)

C20_Witness ==
    \E t \in Threads, u \in Threads :
        /\ t # u
        /\ pc[t] \in {"register", "getpeers"}
        /\ holder = u
====
